---- MODULE Spec2Model ----
(***************************************************************************)
(* State-machine model of the keyboard configuration: the secrets gate     *)
(* (secrets_manager.c), the meta layer handler, the virtual-desktop        *)
(* handler and the process_record_user handler chain of keymap.c.          *)
(*                                                                         *)
(* Characters are modelled by their ASCII codes, keycodes by their numeric *)
(* values, timers by unsigned integers of the width the code gives them.   *)
(***************************************************************************)
EXTENDS Integers, Sequences, FiniteSets, TLC

\* ------------------------------------------------------------------------
\* Keycodes (numeric values of the firmware's keycode enumeration)
\* ------------------------------------------------------------------------
KC_A == 4
KC_L == 15
KC_1 == 30
KC_9 == 38
KC_0 == 39
KC_ENT == 40
KC_ESC == 41
KC_TAB == 43
KC_RGHT == 79
KC_LEFT == 80
KC_DOWN == 81
KC_PENT == 88
KC_KP_1 == 89
KC_KP_9 == 97
KC_KP_0 == 98
KC_APP == 101
KC_LCTL == 224
KC_LSFT == 225
KC_LGUI == 227
KC_RSFT == 229
KC_RGUI == 231
SAFE_RANGE == 32320

\* enum custom_keycodes
E_SECRET_START == SAFE_RANGE
E_PIN == E_SECRET_START
E_PHRASE == E_PIN + 1
E_PASS1 == E_PHRASE + 1
E_PASS2 == E_PASS1 + 1
E_PASS3 == E_PASS2 + 1
E_PASS4 == E_PASS3 + 1
E_SECRET_END == E_PASS4 + 1
PIN_ENTRY == E_SECRET_END + 1
SENTENCE_CASE_TOGGLE == PIN_ENTRY + 1
VD_START == SENTENCE_CASE_TOGGLE + 1
VD_1 == VD_START + 1
VD_9 == VD_1 + 8
VD_END == VD_9 + 1
META_LAYER == VD_END + 1
SMTD_KEYCODES_BEGIN == META_LAYER + 1
SMTD_KEYCODES_END == SMTD_KEYCODES_BEGIN + 11
CYC_S == SMTD_KEYCODES_END + 1
RUN_CMD_START == CYC_S + 1
RUN_WT == RUN_CMD_START + 1
RUN_FILES == RUN_WT + 1
RUN_BROWSER == RUN_FILES + 1
RUN_NOTEPAD == RUN_BROWSER + 1
RUN_CMD_END == RUN_NOTEPAD + 1

\* modifier masks, as sets of modifier keycodes
MOD_MASK_GUI == {KC_LGUI, KC_RGUI}
MOD_MASK_SHIFT == {KC_LSFT, KC_RSFT}
ModifierKeys == {KC_LCTL, KC_LSFT, KC_LGUI, KC_RSFT, KC_RGUI}

\* ------------------------------------------------------------------------
\* Integer widths
\* ------------------------------------------------------------------------
UINT16 == 65536

\* ------------------------------------------------------------------------
\* Secrets table (secrets.h / secret_list)
\* ------------------------------------------------------------------------
NUL == 0
CHAR_0 == 48

\* "12345678"
SECRET_PIN == <<49, 50, 51, 52, 53, 54, 55, 56>>
\* "my very secret phrase"
SECRET_PHRASE == <<109, 121, 32, 118, 101, 114, 121, 32, 115, 101, 99, 114,
                   101, 116, 32, 112, 104, 114, 97, 115, 101>>
\* "password1" .. "password4"
SECRET_PASS_1 == <<112, 97, 115, 115, 119, 111, 114, 100, 49>>
SECRET_PASS_2 == <<112, 97, 115, 115, 119, 111, 114, 100, 50>>
SECRET_PASS_3 == <<112, 97, 115, 115, 119, 111, 114, 100, 51>>
SECRET_PASS_4 == <<112, 97, 115, 115, 119, 111, 114, 100, 52>>

\* secret_list[], indexed from 0 in the code: secret_list[i] is secret_list[i + 1] here
secret_list == <<SECRET_PIN, SECRET_PHRASE, SECRET_PASS_1, SECRET_PASS_2,
                 SECRET_PASS_3, SECRET_PASS_4>>
SECRET_COUNT == Len(secret_list)

\* get_secret(i): the secret, or <<>> standing for NULL when i is out of range
NoSecret == <<>>
\* Mutant: the lookup is off by one.
\* Mutant: an index past the table wraps around instead of yielding NULL.
get_secret_Wrap(i) == secret_list[(i % SECRET_COUNT) + 1]

get_secret_OffByOne(i) ==
  IF i + 1 < SECRET_COUNT THEN secret_list[i + 2] ELSE NoSecret

get_secret(i) == IF i < SECRET_COUNT THEN secret_list[i + 1] ELSE NoSecret

LOCK_TIMEOUT_MS == 300000
MAX_PIN_LENGTH == 32

\* ------------------------------------------------------------------------
\* State
\* ------------------------------------------------------------------------
VARIABLES
  secrets_unlocked,  \* static bool secrets_unlocked
  unlock_timer,      \* static uint32_t unlock_timer
  pin_entry_mode,    \* static bool pin_entry_mode
  pin_buffer,        \* static char pin_buffer[MAX_PIN_LENGTH]
  pin_index,         \* static uint8_t pin_index
  current_vd,        \* static int8_t current_vd
  target_vd,         \* static int8_t target_vd
  vd_max,            \* static int8_t vd_max
  mods,              \* host: the registered modifiers (get_mods())
  layer_meta,        \* host: whether layer _META is on
  halted,            \* host: a handler did not return, the firmware stopped
  timer,             \* host: the millisecond counter (timer_read32())
  out,               \* what the last event emitted to the host
  last,              \* the last event handled and what it returned
  h_auth,            \* history: a matching submit happened and no lock since
  h_typed,           \* history: the digits keyed in the latest capture session
  h_held,            \* history: the keys of HeldTracked that are held down
  h_unlocks          \* history: the instants of the latest matching submits

vars == <<secrets_unlocked, unlock_timer, pin_entry_mode, pin_buffer, pin_index,
          current_vd, target_vd, vd_max, mods, layer_meta, halted, timer, out,
          last,
          h_auth, h_typed, h_held, h_unlocks>>

\* The program state as one record, threaded through the handlers.
Cur == [secrets_unlocked |-> secrets_unlocked,
        unlock_timer |-> unlock_timer,
        pin_entry_mode |-> pin_entry_mode,
        pin_buffer |-> pin_buffer,
        pin_index |-> pin_index,
        current_vd |-> current_vd,
        target_vd |-> target_vd,
        vd_max |-> vd_max,
        mods |-> mods,
        layer_meta |-> layer_meta,
        halted |-> halted,
        out |-> <<>>]

\* The fields of the secrets gate.
Gate(m) == [secrets_unlocked |-> m.secrets_unlocked,
            unlock_timer |-> m.unlock_timer,
            pin_entry_mode |-> m.pin_entry_mode,
            pin_buffer |-> m.pin_buffer,
            pin_index |-> m.pin_index]

\* Outputs to the host.
SendString(text) == [op |-> "send_string", code |-> 0, text |-> text]
TapCode(code) == [op |-> "tap", code |-> code, text |-> <<>>]
RegisterCode(code) == [op |-> "register", code |-> code, text |-> <<>>]
UnregisterCode(code) == [op |-> "unregister", code |-> code, text |-> <<>>]

Emit(m, items) == [m EXCEPT !.out = m.out \o items]

\* ------------------------------------------------------------------------
\* secrets_manager.c
\* ------------------------------------------------------------------------
is_secrets_unlocked(m) == m.secrets_unlocked

is_pin_entry_mode(m) == m.pin_entry_mode

\* Mutant: the lock leaves PIN-capture mode as it is.
secrets_lock_KeepCapture(m) ==
  [m EXCEPT !.secrets_unlocked = FALSE,
            !.pin_index = 0,
            !.pin_buffer = [m.pin_buffer EXCEPT ![0] = NUL]]

secrets_lock(m) ==
  [m EXCEPT !.secrets_unlocked = FALSE,
            !.pin_entry_mode = FALSE,
            !.pin_index = 0,
            !.pin_buffer = [m.pin_buffer EXCEPT ![0] = NUL]]

\* Mutant: no toggle, capture mode is entered from every state.
enter_pin_mode_NoToggle(m) == [m EXCEPT !.pin_entry_mode = TRUE, !.pin_index = 0]

\* Mutant: the buffer position is not reset on entry.
enter_pin_mode_KeepIndex(m) ==
  IF ~m.secrets_unlocked
  THEN [m EXCEPT !.pin_entry_mode = TRUE]
  ELSE secrets_lock(m)

enter_pin_mode(m) ==
  IF ~m.secrets_unlocked
  THEN [m EXCEPT !.pin_entry_mode = TRUE, !.pin_index = 0]
  ELSE secrets_lock(m)

\* The C string held in a buffer: the bytes before the first NUL.
RECURSIVE CStrFrom(_, _)
CStrFrom(buf, i) ==
  IF i >= MAX_PIN_LENGTH \/ buf[i] = NUL THEN <<>>
  ELSE <<buf[i]>> \o CStrFrom(buf, i + 1)

CStr(buf) == CStrFrom(buf, 0)

\* strcmp(a, b) == 0 on C strings
StrEqual(a, b) == a = b

IsPrefix(s, t) == Len(s) <= Len(t) /\ s = SubSeq(t, 1, Len(s))

\* Mutant: one range from KC_1 to KC_KP_0 instead of the two digit rows.
IsDigitKey_OneRange(keycode) == keycode >= KC_1 /\ keycode <= KC_KP_0

IsDigitKey(keycode) ==
  \/ (keycode >= KC_1 /\ keycode <= KC_0)
  \/ (keycode >= KC_KP_1 /\ keycode <= KC_KP_0)

\* The numeric value the digit branch computes for a digit keycode.
DigitVal(keycode) ==
  IF keycode >= KC_KP_1 /\ keycode <= KC_KP_9 THEN (keycode - KC_KP_1) + 1
  ELSE IF keycode = KC_KP_0 THEN 0
  ELSE (keycode - KC_1) + 1

\* Mutant: the last byte of the buffer is used for a digit too.
BufferHasRoom_NoTerminator(idx) == idx < MAX_PIN_LENGTH

BufferHasRoom(idx) == idx < MAX_PIN_LENGTH - 1

\* Mutant: with the buffer full the position still advances.
PinDigit_AdvanceWhenFull(m, keycode) ==
  IF BufferHasRoom(m.pin_index)
  THEN [m EXCEPT !.pin_buffer = [m.pin_buffer EXCEPT
                                   ![m.pin_index] = CHAR_0 + DigitVal(keycode)],
                 !.pin_index = m.pin_index + 1]
  ELSE [m EXCEPT !.pin_index = m.pin_index + 1]

\* Mutant: the digit is written but the position does not advance.
PinDigit_NoAdvance(m, keycode) ==
  IF BufferHasRoom(m.pin_index)
  THEN [m EXCEPT !.pin_buffer = [m.pin_buffer EXCEPT
                                   ![m.pin_index] = CHAR_0 + DigitVal(keycode)]]
  ELSE m

PinDigit(m, keycode) ==
  IF BufferHasRoom(m.pin_index)
  THEN [m EXCEPT !.pin_buffer = [m.pin_buffer EXCEPT
                                   ![m.pin_index] = CHAR_0 + DigitVal(keycode)],
                 !.pin_index = m.pin_index + 1]
  ELSE m

\* Mutant: only the characters typed are compared (a length-limited compare).
PinMatches_Prefix(buf) == IsPrefix(CStr(buf), SECRET_PIN)

PinMatches(buf) == StrEqual(CStr(buf), SECRET_PIN)

\* Mutant: the terminator is written one byte after the position.
PinSubmit_LateTerminator(m, now) ==
  LET buf == [m.pin_buffer EXCEPT ![m.pin_index + 1] = NUL]
      m1 == [m EXCEPT !.pin_buffer = buf]
      m2 == IF PinMatches(buf)
            THEN [m1 EXCEPT !.secrets_unlocked = TRUE, !.unlock_timer = now]
            ELSE m1
  IN [m2 EXCEPT !.pin_entry_mode = FALSE, !.pin_index = 0]

\* Mutant: a matching submit unlocks without recording the instant.
PinSubmit_NoStamp(m, now) ==
  LET buf == [m.pin_buffer EXCEPT ![m.pin_index] = NUL]
      m1 == [m EXCEPT !.pin_buffer = buf]
      m2 == IF PinMatches(buf) THEN [m1 EXCEPT !.secrets_unlocked = TRUE] ELSE m1
  IN [m2 EXCEPT !.pin_entry_mode = FALSE, !.pin_index = 0]

\* Mutant: a matching submit unlocks but does not leave capture mode.
PinSubmit_KeepMode(m, now) ==
  LET buf == [m.pin_buffer EXCEPT ![m.pin_index] = NUL]
      m1 == [m EXCEPT !.pin_buffer = buf]
  IN IF PinMatches(buf)
     THEN [m1 EXCEPT !.secrets_unlocked = TRUE, !.unlock_timer = now,
                     !.pin_index = 0]
     ELSE [m1 EXCEPT !.pin_entry_mode = FALSE, !.pin_index = 0]

\* Mutant: a submit leaves capture mode but keeps the buffer position.
PinSubmit_KeepIndex(m, now) ==
  LET buf == [m.pin_buffer EXCEPT ![m.pin_index] = NUL]
      m1 == [m EXCEPT !.pin_buffer = buf]
      m2 == IF PinMatches(buf)
            THEN [m1 EXCEPT !.secrets_unlocked = TRUE, !.unlock_timer = now]
            ELSE m1
  IN [m2 EXCEPT !.pin_entry_mode = FALSE]

\* Mutant: the buffer is compared without being terminated at the position.
PinSubmit_NoTerminator(m, now) ==
  LET m2 == IF PinMatches(m.pin_buffer)
            THEN [m EXCEPT !.secrets_unlocked = TRUE, !.unlock_timer = now]
            ELSE m
  IN [m2 EXCEPT !.pin_entry_mode = FALSE, !.pin_index = 0]

PinSubmit(m, now) ==
  LET buf == [m.pin_buffer EXCEPT ![m.pin_index] = NUL]
      m1 == [m EXCEPT !.pin_buffer = buf]
      m2 == IF PinMatches(buf)
            THEN [m1 EXCEPT !.secrets_unlocked = TRUE, !.unlock_timer = now]
            ELSE m1
  IN [m2 EXCEPT !.pin_entry_mode = FALSE, !.pin_index = 0]

\* Mutant: cancel leaves capture mode but keeps the buffer position.
PinCancel_KeepIndex(m) == [m EXCEPT !.pin_entry_mode = FALSE]

PinCancel(m) == [m EXCEPT !.pin_entry_mode = FALSE, !.pin_index = 0]

\* Mutant: the handler acts outside PIN-capture mode too.
process_pin_entry_AlwaysActive(m, keycode, pressed, now) ==
  IF ~pressed THEN [m |-> m, ret |-> TRUE]
  ELSE IF IsDigitKey(keycode) THEN [m |-> PinDigit(m, keycode), ret |-> FALSE]
  ELSE IF keycode = KC_PENT \/ keycode = KC_ENT
       THEN [m |-> PinSubmit(m, now), ret |-> FALSE]
  ELSE IF keycode = KC_ESC THEN [m |-> PinCancel(m), ret |-> FALSE]
  ELSE [m |-> m, ret |-> TRUE]

\* Mutant: the cancel key is acted on but passed on to the host.
process_pin_entry_CancelPasses(m, keycode, pressed, now) ==
  IF ~m.pin_entry_mode \/ ~pressed THEN [m |-> m, ret |-> TRUE]
  ELSE IF IsDigitKey(keycode) THEN [m |-> PinDigit(m, keycode), ret |-> FALSE]
  ELSE IF keycode = KC_PENT \/ keycode = KC_ENT
       THEN [m |-> PinSubmit(m, now), ret |-> FALSE]
  ELSE IF keycode = KC_ESC THEN [m |-> PinCancel(m), ret |-> TRUE]
  ELSE [m |-> m, ret |-> TRUE]

\* Each handler returns [m |-> the state after it, ret |-> what it returns].
process_pin_entry(m, keycode, pressed, now) ==
  IF ~m.pin_entry_mode \/ ~pressed THEN [m |-> m, ret |-> TRUE]
  ELSE IF IsDigitKey(keycode) THEN [m |-> PinDigit(m, keycode), ret |-> FALSE]
  ELSE IF keycode = KC_PENT \/ keycode = KC_ENT
       THEN [m |-> PinSubmit(m, now), ret |-> FALSE]
  ELSE IF keycode = KC_ESC THEN [m |-> PinCancel(m), ret |-> FALSE]
  ELSE [m |-> m, ret |-> TRUE]

\* Mutant: the blocked range starts one keycode late.
SecretBlocked_OffByOne(m, keycode) ==
  keycode > E_PIN /\ keycode <= E_PASS4 /\ ~m.secrets_unlocked

SecretBlocked(m, keycode) ==
  keycode >= E_PIN /\ keycode <= E_PASS4 /\ ~m.secrets_unlocked

SecretOutput(idx) ==
  IF get_secret(idx) # NoSecret
  THEN <<SendString(get_secret(idx)), TapCode(KC_ENT)>>
  ELSE <<>>

\* Mutant: using a secret restarts the gate's unlock state (locks it again).
process_secret_keycodes_Relock(m, keycode, pressed) ==
  IF SecretBlocked(m, keycode) THEN [m |-> m, ret |-> FALSE]
  ELSE IF pressed /\ keycode >= E_SECRET_START /\ keycode < E_SECRET_END
       THEN [m |-> secrets_lock(Emit(m, SecretOutput(keycode - E_SECRET_START))),
             ret |-> FALSE]
  ELSE [m |-> m, ret |-> TRUE]

process_secret_keycodes(m, keycode, pressed) ==
  IF SecretBlocked(m, keycode) THEN [m |-> m, ret |-> FALSE]
  ELSE IF pressed /\ keycode >= E_SECRET_START /\ keycode < E_SECRET_END
       THEN [m |-> Emit(m, SecretOutput(keycode - E_SECRET_START)), ret |-> FALSE]
  ELSE [m |-> m, ret |-> TRUE]

\* Mutant: PIN_ENTRY acts on the release as well as on the press.
process_pin_entry_keycode_AnyEdge(m, keycode, pressed) ==
  IF keycode = PIN_ENTRY
  THEN [m |-> enter_pin_mode(m), ret |-> FALSE]
  ELSE [m |-> m, ret |-> TRUE]

process_pin_entry_keycode(m, keycode, pressed) ==
  IF keycode = PIN_ENTRY /\ pressed
  THEN [m |-> enter_pin_mode(m), ret |-> FALSE]
  ELSE [m |-> m, ret |-> TRUE]

\* timer_elapsed(last): the firmware's 16-bit elapsed time, uint16_t
\* timer_elapsed(uint16_t last); the argument is converted to uint16_t.
timer_elapsed(lastv, now) == ((now % UINT16) - (lastv % UINT16)) % UINT16

\* The elapsed time in the timers' own 32-bit width, now - unlocked_at. The
\* instants of the model stay below 2^31 and never go back, so the 32-bit
\* difference does not wrap.
Elapsed32(lastv, now) == now - lastv

TimedOut(m, now) == timer_elapsed(m.unlock_timer, now) > LOCK_TIMEOUT_MS

\* Mutant: the check does not look at the unlocked flag and locks as soon as
\* any time has passed.
secrets_timer_task_AnyState(m, now) ==
  IF timer_elapsed(m.unlock_timer, now) > 0
  THEN [m EXCEPT !.secrets_unlocked = FALSE,
                 !.pin_entry_mode = FALSE,
                 !.pin_index = 0,
                 !.pin_buffer = [m.pin_buffer EXCEPT ![0] = NUL]]
  ELSE m

secrets_timer_task(m, now) ==
  IF m.secrets_unlocked /\ TimedOut(m, now)
  THEN [m EXCEPT !.secrets_unlocked = FALSE,
                 !.pin_entry_mode = FALSE,
                 !.pin_index = 0,
                 !.pin_buffer = [m.pin_buffer EXCEPT ![0] = NUL]]
  ELSE m

\* Mutant: the GUI+L handler forgets to clear the unlocked flag.
secrets_gui_lock_Noop(m) == m

secrets_gui_lock(m) == [m EXCEPT !.secrets_unlocked = FALSE]

\* Mutant: the values for PIN-capture mode and Unlocked are exchanged.
secrets_get_indicator_state_Swapped(m) ==
  IF m.pin_entry_mode THEN 2
  ELSE IF m.secrets_unlocked THEN 1
  ELSE 0

secrets_get_indicator_state(m) ==
  IF m.pin_entry_mode THEN 1
  ELSE IF m.secrets_unlocked THEN 2
  ELSE 0

\* ------------------------------------------------------------------------
\* features/process_meta_layer.h
\* ------------------------------------------------------------------------
RegisterMods(code) == [op |-> "register_mods", code |-> code, text |-> <<>>]
UnregisterMods(code) == [op |-> "unregister_mods", code |-> code, text |-> <<>>]

GuiHeld(m) == (m.mods \cap MOD_MASK_GUI) # {}

\* Mutant: L locks the secrets whether or not a GUI modifier is held.
MetaLock_AnyL(m, keycode, pressed) ==
  IF keycode = KC_L /\ pressed THEN secrets_gui_lock(m) ELSE m

MetaLock(m, keycode, pressed) ==
  IF keycode = KC_L /\ pressed /\ GuiHeld(m) THEN secrets_gui_lock(m) ELSE m

MetaOn(m) ==
  Emit([m EXCEPT !.layer_meta = TRUE, !.mods = m.mods \cup {KC_LGUI}],
       <<RegisterMods(KC_LGUI)>>)

MetaOff(m) ==
  Emit([m EXCEPT !.mods = m.mods \ {KC_LGUI}, !.layer_meta = FALSE],
       <<UnregisterMods(KC_LGUI)>>)

process_meta_layer(m, keycode, pressed) ==
  LET m1 == MetaLock(m, keycode, pressed)
  IN IF keycode # META_LAYER THEN [m |-> m1, ret |-> TRUE]
     ELSE IF pressed THEN [m |-> MetaOn(m1), ret |-> FALSE]
     ELSE [m |-> MetaOff(m1), ret |-> FALSE]

\* ------------------------------------------------------------------------
\* features/virtual_desktop.c
\* ------------------------------------------------------------------------
\* register_code / unregister_code of a key: a modifier key also changes the
\* registered modifiers.
register_code(m, code) ==
  Emit([m EXCEPT !.mods = IF code \in ModifierKeys THEN m.mods \cup {code}
                          ELSE m.mods],
       <<RegisterCode(code)>>)

unregister_code(m, code) ==
  Emit([m EXCEPT !.mods = IF code \in ModifierKeys THEN m.mods \ {code}
                          ELSE m.mods],
       <<UnregisterCode(code)>>)

tap_code(m, code) == Emit(m, <<TapCode(code)>>)

RECURSIVE tap_times(_, _, _)
tap_times(m, code, n) ==
  IF n <= 0 THEN m ELSE tap_times(tap_code(m, code), code, n - 1)

\* tap_code16(LGUI(KC_TAB)): the key tapped with a weak GUI modifier
TapLGui(code) == [op |-> "tap_lgui", code |-> code, text |-> <<>>]

get_current_vd(m) == m.current_vd

set_vd_max(m, max) == IF max >= 1 THEN [m EXCEPT !.vd_max = max] ELSE m

VdRejected(m, vd) == vd < 1 \/ vd > m.vd_max \/ vd = m.current_vd

\* Mutant: the arrow directions are exchanged.
move_vd_Swapped(m, vd) ==
  IF VdRejected(m, vd) THEN m
  ELSE
    LET diff == vd - m.current_vd
        held == register_code(register_code(m, KC_LCTL), KC_LGUI)
        taps == IF diff < 0 THEN tap_times(held, KC_RGHT, -diff)
                ELSE tap_times(held, KC_LEFT, diff)
        done == unregister_code(unregister_code(taps, KC_LGUI), KC_LCTL)
    IN [done EXCEPT !.current_vd = vd]

move_vd(m, vd) ==
  IF VdRejected(m, vd) THEN m
  ELSE
    LET diff == vd - m.current_vd
        held == register_code(register_code(m, KC_LCTL), KC_LGUI)
        taps == IF diff < 0 THEN tap_times(held, KC_LEFT, -diff)
                ELSE tap_times(held, KC_RGHT, diff)
        done == unregister_code(unregister_code(taps, KC_LGUI), KC_LCTL)
    IN [done EXCEPT !.current_vd = vd]

\* Mutant: the menu position is the desktop number, the current desktop
\* not being skipped.
MenuIndex_NoSkip(m, vd) == vd

MenuIndex(m, vd) == IF vd < m.current_vd THEN vd ELSE vd - 1

move_window_to_vd(m, vd) ==
  IF VdRejected(m, vd) THEN m
  ELSE
    LET s1 == Emit(unregister_code(m, KC_LSFT), <<TapLGui(KC_TAB)>>)
        s2 == unregister_code(unregister_code(unregister_code(s1, KC_LSFT),
                                              KC_TAB), KC_LGUI)
        s3 == tap_code(tap_code(tap_code(tap_code(s2, KC_APP), KC_DOWN),
                                KC_DOWN), KC_RGHT)
        s4 == tap_times(s3, KC_DOWN, MenuIndex(m, vd) - 1)
        s5 == tap_code(tap_code(s4, KC_ENT), KC_ESC)
    IN move_vd(s5, vd)

\* Mutant: a key whose target is the current desktop is not consumed.
process_virtual_desktop_PassSame(m, keycode, pressed) ==
  IF pressed /\ keycode >= VD_START /\ keycode < VD_END
  THEN LET m1 == [m EXCEPT !.target_vd = keycode - VD_START]
       IN IF m1.target_vd = m1.current_vd THEN [m |-> m1, ret |-> TRUE]
          ELSE IF (m1.mods \cap MOD_MASK_SHIFT) # {}
               THEN [m |-> move_window_to_vd(m1, m1.target_vd), ret |-> FALSE]
          ELSE [m |-> move_vd(m1, m1.target_vd), ret |-> FALSE]
  ELSE [m |-> m, ret |-> TRUE]

process_virtual_desktop(m, keycode, pressed) ==
  IF pressed /\ keycode >= VD_START /\ keycode < VD_END
  THEN LET m1 == [m EXCEPT !.target_vd = keycode - VD_START]
       IN IF m1.target_vd = m1.current_vd THEN [m |-> m1, ret |-> FALSE]
          ELSE IF (m1.mods \cap MOD_MASK_SHIFT) # {}
               THEN [m |-> move_window_to_vd(m1, m1.target_vd), ret |-> FALSE]
          ELSE [m |-> move_vd(m1, m1.target_vd), ret |-> FALSE]
  ELSE [m |-> m, ret |-> TRUE]

\* ------------------------------------------------------------------------
\* features/run_cmds.h
\* ------------------------------------------------------------------------
\* "wt.exe", "explorer.exe", "zen.exe", "notepad.exe", by keycode - RUN_CMD_START
run_cmds == <<
  <<119, 116, 46, 101, 120, 101>>,
  <<101, 120, 112, 108, 111, 114, 101, 114, 46, 101, 120, 101>>,
  <<122, 101, 110, 46, 101, 120, 101>>,
  <<110, 111, 116, 101, 112, 97, 100, 46, 101, 120, 101>> >>

\* What reading a command string yields: its text, or, through a null
\* pointer, whatever the build does: the firmware stops, or some bytes are
\* read as the text.
StringRead(text) == [crash |-> FALSE, text |-> text]

CHAR_r == 114
NullTexts == {<<>>, <<CHAR_0>>, <<CHAR_r>>}
NullReads == {[crash |-> TRUE, text |-> <<>>]} \cup {StringRead(t) : t \in NullTexts}

\* The argument of a handler call in which no null pointer is read.
NoRead == [read |-> FALSE]

\* SEND_STRING(SS_LGUI("r")): the left GUI key is registered, "r" typed and
\* the left GUI key unregistered; then (after a wait, which emits nothing)
\* the command is typed and Enter tapped. A command that cannot be read
\* stops the firmware before anything more is typed.
run_cmd(m, cmd) ==
  LET s1 == Emit(register_code(m, KC_LGUI), <<SendString(<<CHAR_r>>)>>)
      s2 == unregister_code(s1, KC_LGUI)
  IN IF cmd.crash THEN [s2 EXCEPT !.halted = TRUE]
     ELSE tap_code(Emit(s2, <<SendString(cmd.text)>>), KC_ENT)

\* run_cmds[i]; run_cmds[0] has no initialiser and is a null pointer, whose
\* read yields null.
RunCmdAt(i, null) == IF i = 0 THEN null ELSE StringRead(run_cmds[i])

process_run_cmd(m, keycode, pressed, null) ==
  IF pressed /\ keycode >= RUN_CMD_START /\ keycode < RUN_CMD_END
  THEN [m |-> run_cmd(m, RunCmdAt(keycode - RUN_CMD_START, null)), ret |-> FALSE]
  ELSE [m |-> m, ret |-> TRUE]

\* ------------------------------------------------------------------------
\* features/sentence_case.c (not among the sources): its handler consumes
\* the toggle key and lets every other key through; it touches none of the
\* state modelled here.
\* ------------------------------------------------------------------------
process_record_sentence_case(m, keycode, pressed) ==
  [m |-> m, ret |-> ~(keycode = SENTENCE_CASE_TOGGLE /\ pressed)]

\* ------------------------------------------------------------------------
\* keymap.c
\* ------------------------------------------------------------------------
\* a && b on handler results: b runs only when a returned true
AndThen(r, next(_)) == IF r.ret THEN next(r.m) ELSE r

\* Mutant: process_pin_entry runs but what it returns is dropped.
process_record_user_PinResultDropped(m, keycode, pressed, now, null) ==
  LET h2(x) == process_run_cmd(x, keycode, pressed, null)
      h3(x) == process_meta_layer(x, keycode, pressed)
      h4(x) == process_virtual_desktop(x, keycode, pressed)
      h5(x) == [m |-> process_pin_entry(x, keycode, pressed, now).m, ret |-> TRUE]
      h6(x) == process_pin_entry_keycode(x, keycode, pressed)
      h7(x) == process_secret_keycodes(x, keycode, pressed)
      r1 == process_record_sentence_case(m, keycode, pressed)
      r2 == AndThen(r1, h2)
      r3 == AndThen(r2, h3)
      r4 == AndThen(r3, h4)
      r5 == AndThen(r4, h5)
      r6 == AndThen(r5, h6)
  IN AndThen(r6, h7)

process_record_user(m, keycode, pressed, now, null) ==
  LET h2(x) == process_run_cmd(x, keycode, pressed, null)
      h3(x) == process_meta_layer(x, keycode, pressed)
      h4(x) == process_virtual_desktop(x, keycode, pressed)
      h5(x) == process_pin_entry(x, keycode, pressed, now)
      h6(x) == process_pin_entry_keycode(x, keycode, pressed)
      h7(x) == process_secret_keycodes(x, keycode, pressed)
      r1 == process_record_sentence_case(m, keycode, pressed)
      r2 == AndThen(r1, h2)
      r3 == AndThen(r2, h3)
      r4 == AndThen(r3, h4)
      r5 == AndThen(r4, h5)
      r6 == AndThen(r5, h6)
  IN AndThen(r6, h7)

matrix_scan_user(m, now) == secrets_timer_task(m, now)

\* What the firmware core does with a key the handlers did not consume: a
\* modifier key registers or unregisters its modifier.
host_default(m, keycode, pressed, ret) ==
  IF ret /\ keycode \in ModifierKeys
  THEN [m EXCEPT !.mods = IF pressed THEN m.mods \cup {keycode}
                          ELSE m.mods \ {keycode}]
  ELSE m

\* ------------------------------------------------------------------------
\* Environment: the keys pressed and the instants at which the scan runs
\* ------------------------------------------------------------------------
\* How many digits the too-long attempt adds after the PIN.
MaxExtra == 1

DigitKeys == (KC_1 .. KC_0) \cup (KC_KP_1 .. KC_KP_0)
SubmitKeys == {KC_ENT, KC_PENT}
SecretKeys == E_SECRET_START .. (E_SECRET_END - 1)
OtherKeys == {KC_ESC, PIN_ENTRY, KC_L, KC_A, META_LAYER}
\* The secret-access keys the environment presses.
PressedSecretKeys == {E_PIN, E_PHRASE, E_PASS4}
Keys == DigitKeys \cup SubmitKeys \cup PressedSecretKeys \cup OtherKeys

\* The keys whose release is observed as an event of its own.
ReleasedKeys == {META_LAYER, KC_ENT, E_PIN}

\* The instants (ms since start) at which the matrix scan is observed.
TimePoints == {0, 299999, 300000, 300001}

\* The digits typed since capture mode was entered.
Typed(m) == [i \in 1 .. m.pin_index |-> m.pin_buffer[i - 1]]

\* The PIN attempts typed: the PIN itself, the PIN with a wrong last digit,
\* a wrong first digit, and the PIN followed by MaxExtra more digits.
Attempts == {SECRET_PIN,
             SubSeq(SECRET_PIN, 1, Len(SECRET_PIN) - 1) \o <<CHAR_0 + 9>>,
             <<CHAR_0 + 9>>,
             SECRET_PIN \o [i \in 1 .. MaxExtra |-> CHAR_0]}

\* The attempts submitted before they are complete.
Partial == {<<>>, SubSeq(SECRET_PIN, 1, 4)}

\* The digit a digit key stands for, as a character.
DigitChar(keycode) ==
  IF keycode >= KC_KP_1 /\ keycode <= KC_KP_0
  THEN CHAR_0 + ((keycode - KC_KP_1 + 1) % 10)
  ELSE CHAR_0 + ((keycode - KC_1 + 1) % 10)

ProperPrefixOfAttempt(s) == \E a \in Attempts : IsPrefix(s, a) /\ s # a

\* The environment's choice of events: digit keys follow one of the attempts,
\* a submit ends an attempt at one of the chosen lengths.
KeyAllowed(k, p) ==
  /\ ~p => k \in ReleasedKeys
  /\ (p /\ k \in DigitKeys)
       => \E a \in Attempts : IsPrefix(Append(Typed(Cur), DigitChar(k)), a)
  /\ (p /\ k \in SubmitKeys /\ pin_entry_mode)
       => (Typed(Cur) \in (Partial \cup Attempts)
             \/ ~ProperPrefixOfAttempt(Typed(Cur)))

\* ------------------------------------------------------------------------
\* Initial state: the statics' initialisers, the host at start
\* ------------------------------------------------------------------------
Init ==
  /\ secrets_unlocked = FALSE
  /\ unlock_timer = 0
  /\ pin_entry_mode = FALSE
  /\ pin_buffer = [i \in 0 .. MAX_PIN_LENGTH - 1 |-> NUL]
  /\ pin_index = 0
  /\ current_vd = 1
  /\ target_vd = 0
  /\ vd_max = 9
  /\ mods = {}
  /\ layer_meta = FALSE
  /\ halted = FALSE
  /\ timer = 0
  /\ out = <<>>
  /\ last = [op |-> "init", keycode |-> 0, pressed |-> FALSE, ret |-> TRUE,
             before |-> 0, index_before |-> 0]
  /\ h_auth = FALSE
  /\ h_typed = <<>>
  /\ h_held = {}
  /\ h_unlocks = <<>>

Store(m) ==
  /\ secrets_unlocked' = m.secrets_unlocked
  /\ unlock_timer' = m.unlock_timer
  /\ pin_entry_mode' = m.pin_entry_mode
  /\ pin_buffer' = m.pin_buffer
  /\ pin_index' = m.pin_index
  /\ current_vd' = m.current_vd
  /\ target_vd' = m.target_vd
  /\ vd_max' = m.vd_max
  /\ mods' = m.mods
  /\ layer_meta' = m.layer_meta
  /\ halted' = m.halted
  /\ out' = m.out

\* History: a submit whose keyed digits equal the PIN authorises; a lock
\* (PIN_ENTRY pressed while authorised, L with a GUI modifier, the auto-lock
\* firing) revokes.
IsMatchingSubmit(k, p) ==
  p /\ k \in SubmitKeys /\ pin_entry_mode /\ h_typed = SECRET_PIN

IsLockRequest(k, p) ==
  \/ p /\ k = PIN_ENTRY /\ h_auth
  \/ p /\ k = KC_L /\ (mods \cap MOD_MASK_GUI) # {}

\* History: the digits keyed since PIN_ENTRY last started a capture session.
TypedAfter(k, p) ==
  IF p /\ k = PIN_ENTRY THEN <<>>
  ELSE IF p /\ pin_entry_mode /\ k \in DigitKeys
       THEN Append(h_typed, DigitChar(k))
  ELSE h_typed

\* History: the keys whose being held matters to a handler, and which of
\* them are down after an event.
HeldTracked == {META_LAYER, KC_LSFT, KC_RSFT}

HeldAfter(k, p) ==
  IF k \notin HeldTracked THEN h_held
  ELSE IF p THEN h_held \cup {k} ELSE h_held \ {k}

\* What the read of the command string can yield in the event: only the
\* press of RUN_CMD_START reads the null pointer run_cmds[0].
NullReadsOf(k, p) == IF p /\ k = RUN_CMD_START THEN NullReads ELSE {NoRead}

\* One key event, through process_record_user and the core's default action.
\* The history of unlock instants is kept by the specification that needs it.
KeyStep(k, p) ==
  /\ ~halted
  /\ \E null \in NullReadsOf(k, p) :
       LET r == process_record_user(Cur, k, p, timer, null)
       IN /\ Store(host_default(r.m, k, p, r.ret))
          /\ last' = [op |-> "key", keycode |-> k, pressed |-> p, ret |-> r.ret,
                      before |-> secrets_get_indicator_state(Cur),
                      index_before |-> pin_index]
  /\ h_auth' = IF IsMatchingSubmit(k, p) THEN TRUE
               ELSE IF IsLockRequest(k, p) THEN FALSE
               ELSE h_auth
  /\ h_typed' = TypedAfter(k, p)
  /\ h_held' = HeldAfter(k, p)
  /\ UNCHANGED timer

\* A key event of the environment of Spec.
KeyEvent(k, p) == KeyAllowed(k, p) /\ KeyStep(k, p) /\ UNCHANGED h_unlocks

\* One pass of the scan loop at instant t: matrix_scan_user.
MatrixScan(t) ==
  /\ ~halted
  /\ t >= timer
  /\ timer' = t
  /\ LET m == matrix_scan_user(Cur, t)
     IN /\ Store(m)
        /\ h_auth' = IF secrets_unlocked /\ ~m.secrets_unlocked THEN FALSE
                     ELSE h_auth
  /\ last' = [op |-> "scan", keycode |-> 0, pressed |-> FALSE, ret |-> TRUE,
              before |-> secrets_get_indicator_state(Cur),
              index_before |-> pin_index]
  /\ UNCHANGED <<h_typed, h_held, h_unlocks>>

Next ==
  \/ \E k \in Keys, p \in BOOLEAN : KeyEvent(k, p)
  \/ \E t \in TimePoints : MatrixScan(t)

Spec == Init /\ [][Next]_vars

\* ------------------------------------------------------------------------
\* Filling the buffer: a capture session in which digit keys are pressed up
\* to and past the buffer's capacity.
\* ------------------------------------------------------------------------
\* How many digit keys are pressed beyond MAX_PIN_LENGTH in one session.
MaxOver == 2

\* The digit key pressed as the (i+1)-th of a session: the number row and
\* the numpad in turn.
FillKey(i) == IF i % 2 = 0 THEN KC_1 + (i % 9) ELSE KC_KP_1 + (i % 10)

FillDigitKeys == {FillKey(i) : i \in 0 .. MAX_PIN_LENGTH + MaxOver - 1}

FullKeys == FillDigitKeys \cup {PIN_ENTRY, KC_ENT, KC_ESC}

\* Digit keys are pressed in capture mode, in the order of FillKey; a submit
\* comes with the buffer empty or full.
FullAllowed(k) ==
  /\ k \in FillDigitKeys
       => /\ pin_entry_mode
          /\ Len(h_typed) < MAX_PIN_LENGTH + MaxOver
          /\ k = FillKey(Len(h_typed))
  /\ k = KC_ENT => (pin_index = 0 \/ ~BufferHasRoom(pin_index))

FullEvent(k) == FullAllowed(k) /\ KeyStep(k, TRUE) /\ UNCHANGED h_unlocks

NextFull == \E k \in FullKeys : FullEvent(k)

SpecFull == Init /\ [][NextFull]_vars

\* ------------------------------------------------------------------------
\* The meta layer and the virtual desktops: the Meta and Shift keys held and
\* released, the virtual-desktop keys, L and a run-command key pressed.
\* ------------------------------------------------------------------------
VdKeyCodes == (VD_START + 1) .. (VD_END - 1)

VdKeys == VdKeyCodes \cup HeldTracked \cup {VD_START, KC_L, RUN_WT, RUN_CMD_START}

\* A key is pressed when it is up and released when it is down; releases
\* are observed for the held keys and for VD_1.
VdAllowed(k, p) ==
  /\ k \in HeldTracked => (p <=> k \notin h_held)
  /\ ~p => k \in HeldTracked \cup {VD_1}

VdEvent(k, p) == VdAllowed(k, p) /\ KeyStep(k, p) /\ UNCHANGED h_unlocks

NextVD == \E k \in VdKeys, p \in BOOLEAN : VdEvent(k, p)

SpecVD == Init /\ [][NextVD]_vars

\* ------------------------------------------------------------------------
\* The virtual-desktop module through its interface: set_vd_max, move_vd
\* and move_window_to_vd called with arguments around the valid range, and
\* the virtual-desktop keys pressed with and without Shift.
\* ------------------------------------------------------------------------
VdMaxArgs == {0, 1, 3, 9}

VdArgs == 0 .. 10

\* A call of the interface: the state it leaves, and the record of the call.
ApiCall(name, arg, m) ==
  /\ ~halted
  /\ Store(m)
  /\ last' = [op |-> name, keycode |-> arg, pressed |-> FALSE, ret |-> TRUE,
              before |-> current_vd, index_before |-> vd_max]
  /\ UNCHANGED <<timer, h_auth, h_typed, h_held, h_unlocks>>

SetVdMax(max) == ApiCall("set_vd_max", max, set_vd_max(Cur, max))

MoveVd(vd) == ApiCall("move_vd", vd, move_vd(Cur, vd))

MoveWindowToVd(vd) == ApiCall("move_window_to_vd", vd, move_window_to_vd(Cur, vd))

VdApiKeys == VdKeyCodes \cup {VD_START, KC_LSFT}

VdApiKey(k, p) ==
  /\ k = KC_LSFT => (p <=> k \notin h_held)
  /\ ~p => k = KC_LSFT
  /\ KeyStep(k, p)
  /\ UNCHANGED h_unlocks

NextVdApi ==
  \/ \E max \in VdMaxArgs : SetVdMax(max)
  \/ \E vd \in VdArgs : MoveVd(vd)
  \/ \E vd \in VdArgs : MoveWindowToVd(vd)
  \/ \E k \in VdApiKeys, p \in BOOLEAN : VdApiKey(k, p)

SpecVdApi == Init /\ [][NextVdApi]_vars

\* ------------------------------------------------------------------------
\* The scan loop keeps running: the PIN keyed and submitted, a secret and a
\* letter key pressed, and matrix_scan_user called again and again while the
\* millisecond counter advances to the last observed instant.
\* ------------------------------------------------------------------------
MaxTime == CHOOSE t \in TimePoints : \A u \in TimePoints : u <= t

LiveKeys == (KC_1 .. KC_9) \cup {KC_ENT, PIN_ENTRY, E_PIN, E_PASS4, KC_A}

\* Digit keys are pressed in capture mode and spell the PIN.
LiveAllowed(k) ==
  k \in DigitKeys
    => /\ pin_entry_mode
       /\ IsPrefix(Append(Typed(Cur), DigitChar(k)), SECRET_PIN)

\* History: the instants of the last two matching submits, the latest last.
UnlocksAfter(k) ==
  IF ~IsMatchingSubmit(k, TRUE) THEN h_unlocks
  ELSE IF h_unlocks = <<>> THEN <<timer>>
  ELSE <<h_unlocks[Len(h_unlocks)], timer>>

LiveEvent(k) ==
  LiveAllowed(k) /\ KeyStep(k, TRUE) /\ h_unlocks' = UnlocksAfter(k)

NextLive ==
  \/ \E k \in LiveKeys : LiveEvent(k)
  \/ \E t \in TimePoints : MatrixScan(t)

\* The main loop calls matrix_scan_user on every pass and the counter keeps
\* counting: the scan at the last instant is not postponed for ever.
SpecLive == Init /\ [][NextLive]_vars /\ WF_vars(MatrixScan(MaxTime))

\* ------------------------------------------------------------------------
\* Properties
\* ------------------------------------------------------------------------
Locked(m) == secrets_get_indicator_state(m) = 0
CapturingPin(m) == secrets_get_indicator_state(m) = 1
Unlocked(m) == secrets_get_indicator_state(m) = 2

\* The result of a key press handled in the current state.
Press(k) == process_record_user(Cur, k, TRUE, timer, NoRead)
Release(k) == process_record_user(Cur, k, FALSE, timer, NoRead)

LastPress(keys) == last.op = "key" /\ last.pressed /\ last.keycode \in keys

SecretTexts == {secret_list[i] : i \in 1 .. Len(secret_list)}

\* Some secret's text was emitted by the last event.
SecretEmitted ==
  \E i \in 1 .. Len(out) : out[i].op = "send_string" /\ out[i].text \in SecretTexts

\* C1: after a submit key press in PIN-capture mode, with the keyed digits
\* within the buffer capacity, the gate is Unlocked if the keyed digit
\* sequence equals the reference PIN, and Locked otherwise.
C1_SubmitUnlocksIffPin ==
  (LastPress(SubmitKeys) /\ last.before = 1 /\ Len(h_typed) <= MAX_PIN_LENGTH)
    => IF h_typed = SECRET_PIN THEN Unlocked(Cur) ELSE Locked(Cur)

C1_Witness ==
  /\ LastPress(SubmitKeys) /\ last.before = 1
  /\ h_typed = SECRET_PIN /\ Unlocked(Cur)

\* C2: a secret's text is emitted only when a matching submit happened with
\* no lock since, and the gate is unlocked only in that case; none of it
\* holds at start.
C2_EmissionOnlyAfterMatchingSubmit ==
  /\ SecretEmitted => h_auth
  /\ secrets_unlocked => h_auth

C2_Witness == SecretEmitted /\ h_auth /\ LastPress(SecretKeys)

\* C3: a secret-access key event while the gate is Locked or CapturingPin
\* emits nothing, is consumed and changes no state.
C3_SecretKeyWhileLocked ==
  ~Unlocked(Cur) =>
    \A k \in SecretKeys :
      /\ Press(k) = [m |-> Cur, ret |-> FALSE]
      /\ Release(k) = [m |-> Cur, ret |-> FALSE]

C3_Witness ==
  /\ LastPress(SecretKeys) /\ last.before = 1 /\ ~last.ret
  /\ out = <<>> /\ CapturingPin(Cur) /\ pin_index > 0

\* The secret the claim assigns to each secret-access key.
SecretOfKey(k) ==
  CASE k = E_PIN -> SECRET_PIN
    [] k = E_PHRASE -> SECRET_PHRASE
    [] k = E_PASS1 -> SECRET_PASS_1
    [] k = E_PASS2 -> SECRET_PASS_2
    [] k = E_PASS3 -> SECRET_PASS_3
    [] k = E_PASS4 -> SECRET_PASS_4

\* C4: a press of secret-access key k while Unlocked emits exactly the text
\* of the secret that belongs to k, then one Enter tap, and is consumed.
C4_SecretKeyEmitsItsSecret ==
  Unlocked(Cur) =>
    \A k \in SecretKeys :
      /\ Press(k).m.out = <<SendString(SecretOfKey(k)), TapCode(KC_ENT)>>
      /\ Press(k).ret = FALSE

C4_Witness ==
  /\ LastPress({E_PASS4}) /\ last.before = 2 /\ ~last.ret
  /\ out = <<SendString(SECRET_PASS_4), TapCode(KC_ENT)>>

\* C5: a secret-access key event while Unlocked leaves the gate state
\* unchanged, the unlock timestamp included.
C5_SecretKeyKeepsGate ==
  Unlocked(Cur) =>
    \A k \in SecretKeys :
      /\ Gate(Press(k).m) = Gate(Cur)
      /\ Gate(Release(k).m) = Gate(Cur)

C5_Witness ==
  /\ LastPress(SecretKeys) /\ last.before = 2 /\ SecretEmitted
  /\ Unlocked(Cur) /\ timer > unlock_timer

\* C6: the auto-lock check run while Unlocked at instant t locks the gate
\* when t - unlock_timer exceeds the timeout and changes nothing otherwise.
C6_AutoLockAtTimeout ==
  Unlocked(Cur) =>
    \A t \in TimePoints :
      t >= timer =>
        IF Elapsed32(unlock_timer, t) > LOCK_TIMEOUT_MS
        THEN Locked(matrix_scan_user(Cur, t))
        ELSE matrix_scan_user(Cur, t) = Cur

\* C7: with an unlock at instant 0, the auto-lock check at 299999 leaves the
\* gate Unlocked and the check at 300001 leaves it Locked.
C7_AutoLockExample ==
  (last.op = "scan" /\ last.before = 2 /\ unlock_timer = 0)
    => /\ timer = 299999 => Unlocked(Cur)
       /\ timer = 300001 => Locked(Cur)

\* C8: a press of L with a GUI modifier held leaves the gate Locked, from
\* Locked, CapturingPin and Unlocked alike.
C8_GuiLockAlwaysLocks ==
  GuiHeld(Cur) => Locked(Press(KC_L).m)

\* C9: a PIN_ENTRY press while Unlocked leaves the gate Locked with an empty
\* buffer, never in capture mode.
C9_PinEntryTogglesToLocked ==
  Unlocked(Cur) =>
    /\ Locked(Press(PIN_ENTRY).m)
    /\ Press(PIN_ENTRY).m.pin_index = 0
    /\ CStr(Press(PIN_ENTRY).m.pin_buffer) = <<>>

C9_Witness ==
  /\ LastPress({PIN_ENTRY}) /\ last.before = 2
  /\ Locked(Cur) /\ pin_index = 0 /\ pin_buffer[0] = NUL

\* C10: a PIN_ENTRY press while the gate is not Unlocked leaves it in
\* CapturingPin with buffer length zero, from Locked and from CapturingPin
\* with a partial buffer alike.
C10_PinEntryStartsCapture ==
  ~Unlocked(Cur) =>
    /\ CapturingPin(Press(PIN_ENTRY).m)
    /\ Press(PIN_ENTRY).m.pin_index = 0

C10_Witness ==
  /\ LastPress({PIN_ENTRY}) /\ last.before = 1 /\ last.index_before > 0
  /\ CapturingPin(Cur) /\ pin_index = 0

\* C11: a press of Escape in CapturingPin leaves the gate Locked with buffer
\* length zero, whatever the buffer holds, and the press is consumed.
C11_CancelLocks ==
  CapturingPin(Cur) =>
    /\ Locked(Press(KC_ESC).m)
    /\ Press(KC_ESC).m.pin_index = 0
    /\ Press(KC_ESC).ret = FALSE

C11_Witness ==
  /\ LastPress({KC_ESC}) /\ last.before = 1 /\ last.index_before > 0
  /\ ~last.ret /\ Locked(Cur) /\ pin_index = 0

\* C12: the number of buffered digits never exceeds MAX_PIN_LENGTH, and a
\* digit key press with the buffer full leaves buffer and position as they
\* are, is consumed, and leaves the gate in CapturingPin.
C12_BufferBounded ==
  /\ pin_index <= MAX_PIN_LENGTH
  /\ (CapturingPin(Cur) /\ pin_index >= MAX_PIN_LENGTH - 1) =>
       \A k \in DigitKeys :
         /\ Press(k).m.pin_buffer = pin_buffer
         /\ Press(k).m.pin_index = pin_index
         /\ Press(k).ret = FALSE
         /\ CapturingPin(Press(k).m)

C12_Witness ==
  /\ LastPress(DigitKeys) /\ last.before = 1
  /\ last.index_before = MAX_PIN_LENGTH - 1 /\ ~last.ret
  /\ CapturingPin(Cur) /\ pin_index = MAX_PIN_LENGTH - 1
  /\ Len(h_typed) > MAX_PIN_LENGTH

\* The smaller of two numbers.
Min(a, b) == IF a < b THEN a ELSE b

\* C13 as stated: in capture mode the buffer holds the first 32 digits keyed
\* since capture mode was entered; only presses after the 32nd are dropped.
C13_Holds32Digits ==
  CapturingPin(Cur) => pin_index = Min(Len(h_typed), MAX_PIN_LENGTH)

\* C13 amended: in capture mode the buffer holds the first
\* MAX_PIN_LENGTH - 1 = 31 digits keyed since capture mode was entered;
\* the 32nd and later digit key presses are dropped.
C13_Holds31Digits ==
  CapturingPin(Cur) =>
    /\ pin_index = Min(Len(h_typed), MAX_PIN_LENGTH - 1)
    /\ Typed(Cur) = SubSeq(h_typed, 1, pin_index)

C13_Witness ==
  /\ LastPress(DigitKeys) /\ CapturingPin(Cur)
  /\ Len(h_typed) = MAX_PIN_LENGTH /\ pin_index = MAX_PIN_LENGTH - 1
  /\ Typed(Cur) = SubSeq(h_typed, 1, MAX_PIN_LENGTH - 1)

\* C14: in every reachable state the gate is not both in PIN-capture mode
\* and Unlocked (pin_entry_mode and secrets_unlocked are not both true).
C14_NeverCapturingAndUnlocked == ~(pin_entry_mode /\ secrets_unlocked)

C14_Witness ==
  /\ LastPress({KC_L}) /\ last.before = 1 /\ GuiHeld(Cur)
  /\ pin_entry_mode /\ ~secrets_unlocked /\ h_typed # <<>>

\* C15: in every reachable state in which the gate is not in CapturingPin
\* the buffer length pin_index is zero.
C15_IndexZeroOutsideCapture == ~CapturingPin(Cur) => pin_index = 0

C15_Witness ==
  /\ LastPress(SubmitKeys) /\ last.before = 1
  /\ last.index_before = Len(SECRET_PIN)
  /\ ~secrets_unlocked /\ ~pin_entry_mode /\ pin_index = 0

\* C16: a submit with buffer length zero in CapturingPin never unlocks, the
\* gate becomes Locked (the reference PIN is not empty).
C16_EmptySubmitLocks ==
  (CapturingPin(Cur) /\ pin_index = 0 /\ SECRET_PIN # <<>>) =>
    \A s \in SubmitKeys :
      /\ Locked(Press(s).m)
      /\ ~Press(s).m.secrets_unlocked

C16_Witness ==
  /\ LastPress(SubmitKeys) /\ last.before = 1 /\ last.index_before = 0
  /\ h_typed = <<>> /\ Locked(Cur)
  /\ pin_buffer[0] = NUL /\ pin_buffer[1] # NUL

\* What an observer of the gate sees of a handled key event: the flags, the
\* buffer length, the indicator value, what was emitted, whether the key was
\* consumed.
Observed(r) ==
  [unlocked |-> r.m.secrets_unlocked, capture |-> r.m.pin_entry_mode,
   length |-> r.m.pin_index, indicator |-> secrets_get_indicator_state(r.m),
   emitted |-> r.m.out, consumed |-> ~r.ret]

\* C17: from one CapturingPin state whose buffered digits are not the PIN, a
\* submit and a cancel give the same observation: Locked, capture off,
\* length zero, indicator 0, nothing emitted, key consumed.
C17_WrongPinLooksLikeCancel ==
  (CapturingPin(Cur) /\ Typed(Cur) # SECRET_PIN) =>
    \A s \in SubmitKeys :
      /\ Observed(Press(s)) = Observed(Press(KC_ESC))
      /\ Observed(Press(s)) =
           [unlocked |-> FALSE, capture |-> FALSE, length |-> 0,
            indicator |-> 0, emitted |-> <<>>, consumed |-> TRUE]

C17_Witness ==
  /\ LastPress(SubmitKeys) /\ last.before = 1 /\ ~last.ret
  /\ h_typed = <<CHAR_0 + 9>> /\ last.index_before = 1
  /\ Locked(Cur) /\ pin_index = 0 /\ out = <<>>

\* C18: in CapturingPin with room in the buffer, a press of the key of digit
\* d, on the number row or the numpad, appends the character of d and is
\* consumed.
C18_DigitKeyAppendsItsDigit ==
  (CapturingPin(Cur) /\ pin_index < MAX_PIN_LENGTH - 1) =>
    \A k \in DigitKeys :
      /\ Press(k).m.pin_buffer = [pin_buffer EXCEPT ![pin_index] = DigitChar(k)]
      /\ Press(k).m.pin_index = pin_index + 1
      /\ Press(k).ret = FALSE

\* The keys some handler of the chain looks at, and a plain letter key.
GateKeys ==
  {KC_1, KC_9, KC_0, KC_KP_1, KC_KP_9, KC_KP_0} \cup SubmitKeys \cup ModifierKeys
    \cup {KC_ESC, KC_L, KC_A, KC_TAB} \cup SecretKeys
    \cup {PIN_ENTRY, SENTENCE_CASE_TOGGLE, VD_START, VD_1, VD_9, META_LAYER,
          CYC_S, RUN_CMD_START, RUN_WT, RUN_NOTEPAD}

\* The keys that are neither a digit, a submit key nor the cancel key.
PassKeys == GateKeys \ (DigitKeys \cup SubmitKeys \cup {KC_ESC})

\* C19: in CapturingPin, process_pin_entry returns true for a press of a key
\* that is not a digit, a submit key or the cancel key, and changes nothing.
C19_OtherKeysPassThrough ==
  CapturingPin(Cur) =>
    \A k \in PassKeys :
      process_pin_entry(Cur, k, TRUE, timer) = [m |-> Cur, ret |-> TRUE]

C19_Witness ==
  /\ LastPress({KC_A}) /\ last.before = 1 /\ last.ret
  /\ CapturingPin(Cur) /\ pin_index = last.index_before /\ pin_index > 0

\* Some secret's text is among the outputs o.
EmitsSecret(o) ==
  \E i \in 1 .. Len(o) : o[i].op = "send_string" /\ o[i].text \in SecretTexts

\* C20: a key release leaves the gate state (mode, unlocked flag, buffer,
\* unlock timestamp) unchanged and emits no secret, for every key and every
\* gate state.
C20_ReleaseChangesNothing ==
  \A k \in GateKeys :
    LET r == Release(k)
    IN Gate(r.m) = Gate(Cur) /\ ~EmitsSecret(r.m.out)

C20_Witness ==
  /\ last.op = "key" /\ ~last.pressed /\ last.keycode = E_PIN
  /\ last.before = 2 /\ Unlocked(Cur) /\ ~EmitsSecret(out)

\* C21: secrets_get_indicator_state returns 0 exactly when the gate is
\* Locked (neither flag set), 1 exactly when PIN-capture mode is on, and 2
\* exactly when the unlocked flag is set; being a read, it leaves the state
\* it is given as it is.
C21_IndicatorMatchesGate ==
  LET s == secrets_get_indicator_state(Cur)
  IN /\ s \in {0, 1, 2}
     /\ s = 0 <=> (~pin_entry_mode /\ ~secrets_unlocked)
     /\ s = 1 <=> pin_entry_mode
     /\ s = 2 <=> secrets_unlocked

C21_Witness ==
  /\ secrets_get_indicator_state(Cur) = 2 /\ secrets_unlocked
  /\ last.op = "scan" /\ last.before = 2 /\ timer > unlock_timer

\* C23: secrets_lock called in any gate state leaves the unlocked flag
\* false, PIN-capture mode off and the buffer length zero.
C23_SecretsLockLocks ==
  LET m == secrets_lock(Cur)
  IN /\ ~m.secrets_unlocked /\ ~m.pin_entry_mode /\ m.pin_index = 0
     /\ Locked(m)

C23_Witness ==
  /\ LastPress({PIN_ENTRY}) /\ last.before = 2 /\ ~h_auth
  /\ ~secrets_unlocked /\ ~pin_entry_mode /\ pin_index = 0
  /\ Cur = secrets_lock(Cur)

\* C25: a press of L with a GUI modifier active leaves the gate not
\* Unlocked; process_meta_layer returns true for it and so does the whole
\* chain; a press of L with no GUI modifier leaves the gate state unchanged.
C25_GuiLLocksAndPasses ==
  LET r == process_meta_layer(Cur, KC_L, TRUE)
  IN /\ r.ret
     /\ Press(KC_L).ret
     /\ GuiHeld(Cur) => (~r.m.secrets_unlocked /\ ~Unlocked(Press(KC_L).m))
     /\ ~GuiHeld(Cur) => (Gate(r.m) = Gate(Cur) /\ Gate(Press(KC_L).m) = Gate(Cur))

C25_Witness ==
  /\ LastPress({KC_L}) /\ last.before = 2 /\ last.ret
  /\ GuiHeld(Cur) /\ ~secrets_unlocked /\ ~h_auth

\* C22: once the gate is Unlocked, with the auto-lock check invoked again
\* and again while time advances past the timeout, the gate eventually
\* becomes Locked, whatever key events are interleaved. The unlocks looked
\* at are those whose timeout ends before the last observed instant.
C22_EventuallyAutoLocked ==
  (secrets_unlocked /\ unlock_timer + LOCK_TIMEOUT_MS < MaxTime) ~> Locked(Cur)

\* C24: while META_LAYER is held down, layer _META is on and the left GUI
\* modifier is registered after every key press handled in between, the
\* virtual-desktop keys included; after its release both are off.
C24_MetaHeldKeepsLayerAndGui ==
  /\ META_LAYER \in h_held => (layer_meta /\ KC_LGUI \in mods)
  /\ (last.op = "key" /\ last.keycode = META_LAYER /\ ~last.pressed)
       => (~layer_meta /\ KC_LGUI \notin mods)

\* The keystrokes of a desktop switch: Ctrl and GUI pressed, one arrow tap
\* per desktop of distance, GUI and Ctrl released.
SwitchSeq(from, to) ==
  <<RegisterCode(KC_LCTL), RegisterCode(KC_LGUI)>>
    \o [i \in 1 .. (IF to < from THEN from - to ELSE to - from) |->
          TapCode(IF to < from THEN KC_LEFT ELSE KC_RGHT)]
    \o <<UnregisterCode(KC_LGUI), UnregisterCode(KC_LCTL)>>

\* C26: move_vd(vd) with 1 <= vd <= vd_max and vd # current_vd emits Ctrl
\* and GUI pressed, |vd - current_vd| arrow taps (Left to a lower desktop,
\* Right to a higher one), GUI and Ctrl released; both modifiers are off
\* afterwards and current_vd is vd.
C26_MoveVdSwitches ==
  \A vd \in 1 .. vd_max :
    vd # current_vd =>
      LET m == move_vd(Cur, vd)
      IN /\ m.out = SwitchSeq(current_vd, vd)
         /\ m.current_vd = vd
         /\ KC_LCTL \notin m.mods /\ KC_LGUI \notin m.mods

C26_Witness ==
  /\ LastPress({VD_START + 2}) /\ ~last.ret /\ current_vd = 2
  /\ out = SwitchSeq(5, 2)

\* The keystrokes that move the window: Shift released, Win+Tab, the
\* modifiers released, the context menu opened, "Move to" entered, the
\* target's menu line reached, confirmed, Task View left.
WindowSeq(from, to) ==
  <<UnregisterCode(KC_LSFT), TapLGui(KC_TAB), UnregisterCode(KC_LSFT),
    UnregisterCode(KC_TAB), UnregisterCode(KC_LGUI), TapCode(KC_APP),
    TapCode(KC_DOWN), TapCode(KC_DOWN), TapCode(KC_RGHT)>>
    \o [i \in 1 .. ((IF to < from THEN to ELSE to - 1) - 1) |-> TapCode(KC_DOWN)]
    \o <<TapCode(KC_ENT), TapCode(KC_ESC)>>

ShiftHeld(m) == (m.mods \cap MOD_MASK_SHIFT) # {}

\* A Shift key is held down by the user.
ShiftKeyDown == (h_held \cap MOD_MASK_SHIFT) # {}

\* C27: a press of VD_n, n in 1..9 other than the current desktop, is
\* consumed and leaves current_vd = n; while a Shift key is held down the
\* move-window sequence is emitted and then the switch sequence, with no
\* Shift key down only the switch sequence. A release of a VD key changes
\* nothing.
C27_VdKeySwitches ==
  \A n \in 1 .. 9 :
    /\ Release(VD_START + n) = [m |-> Cur, ret |-> TRUE]
    /\ n # current_vd =>
         LET r == Press(VD_START + n)
         IN /\ ~r.ret
            /\ r.m.current_vd = n
            /\ r.m.out = (IF ShiftKeyDown THEN WindowSeq(current_vd, n)
                          ELSE <<>>) \o SwitchSeq(current_vd, n)

\* The handlers in the order the claim gives them.
HandlerAt(i, m, k, p, now) ==
  CASE i = 1 -> process_record_sentence_case(m, k, p)
    [] i = 2 -> process_run_cmd(m, k, p, NoRead)
    [] i = 3 -> process_meta_layer(m, k, p)
    [] i = 4 -> process_virtual_desktop(m, k, p)
    [] i = 5 -> process_pin_entry(m, k, p, now)
    [] i = 6 -> process_pin_entry_keycode(m, k, p)
    [] i = 7 -> process_secret_keycodes(m, k, p)

\* The handlers consulted from the i-th on, stopping at the first that
\* consumes the event; by is that handler's position, 0 if there is none.
RECURSIVE RunFrom(_, _, _, _, _)
RunFrom(i, m, k, p, now) ==
  IF i > 7 THEN [m |-> m, by |-> 0]
  ELSE LET r == HandlerAt(i, m, k, p, now)
       IN IF ~r.ret THEN [m |-> r.m, by |-> i]
          ELSE RunFrom(i + 1, r.m, k, p, now)

\* Keys for each handler of the chain, and a plain letter key.
ChainKeys ==
  {SENTENCE_CASE_TOGGLE, RUN_WT, META_LAYER, KC_L, VD_1, VD_9, KC_1, KC_KP_0,
   KC_ENT, KC_PENT, KC_ESC, PIN_ENTRY, E_PIN, E_PASS4, KC_A}

\* C28: process_record_user consults sentence case, run command, meta
\* layer, virtual desktop, PIN capture, PIN_ENTRY key, secret keys in that
\* order, stops at the first that consumes the event, and returns true
\* exactly when none consumed it; digit, Enter and Escape presses in
\* PIN-capture mode are consumed by the PIN capture handler.
C28_FirstConsumerWins ==
  \A k \in ChainKeys, p \in BOOLEAN :
    LET r == process_record_user(Cur, k, p, timer, NoRead)
        c == RunFrom(1, Cur, k, p, timer)
    IN /\ r.m = c.m
       /\ r.ret <=> c.by = 0
       /\ (p /\ pin_entry_mode /\ k \in {KC_1, KC_KP_0, KC_ENT, KC_PENT, KC_ESC})
            => (~r.ret /\ c.by = 5)

C28_Witness ==
  /\ LastPress(DigitKeys) /\ last.before = 1 /\ ~last.ret
  /\ pin_index = last.index_before + 1 /\ pin_index = Len(SECRET_PIN)

\* C29: a secret lookup with an index outside the table (up to 255, the
\* index being a uint8_t) yields NULL and nothing to emit, and every
\* keycode k with E_SECRET_START <= k < E_SECRET_END is consumed on a press
\* and maps to an index below SECRET_COUNT, whose secret it emits when
\* unlocked.
C29_SecretIndexInRange ==
  /\ \A i \in SECRET_COUNT .. 255 :
       get_secret(i) = NoSecret /\ SecretOutput(i) = <<>>
  /\ \A k \in E_SECRET_START .. (E_SECRET_END - 1) :
       LET r == process_secret_keycodes(Cur, k, TRUE)
       IN /\ k - E_SECRET_START < SECRET_COUNT
          /\ ~r.ret
          /\ secrets_unlocked =>
               r.m.out = <<SendString(secret_list[k - E_SECRET_START + 1]),
                           TapCode(KC_ENT)>>

C29_Witness ==
  /\ LastPress({E_SECRET_END - 1}) /\ ~last.ret /\ secrets_unlocked
  /\ last.keycode - E_SECRET_START = SECRET_COUNT - 1
  /\ out = <<SendString(secret_list[SECRET_COUNT]), TapCode(KC_ENT)>>

\* C30: outside PIN-capture mode, Locked or Unlocked, process_pin_entry
\* returns true for digit, Enter and Escape presses and changes nothing.
C30_NotCapturingPassesThrough ==
  ~pin_entry_mode =>
    \A k \in DigitKeys \cup SubmitKeys \cup {KC_ESC} :
      process_pin_entry(Cur, k, TRUE, timer) = [m |-> Cur, ret |-> TRUE]

C30_Witness ==
  /\ LastPress(SubmitKeys) /\ last.before = 2 /\ last.ret
  /\ Unlocked(Cur) /\ pin_index = 0 /\ out = <<>>

\* The target is below 1, above vd_max or the current desktop.
BadTarget(vd) == vd < 1 \/ vd > vd_max \/ vd = current_vd

\* C31: move_vd and move_window_to_vd with a target below 1, above vd_max
\* or equal to the current desktop emit nothing and leave current_vd (and
\* everything else) unchanged; a pressed VD key with such a target is
\* consumed, emits nothing and leaves current_vd unchanged.
C31_BadTargetIgnored ==
  /\ \A vd \in -1 .. 11 :
       BadTarget(vd) =>
         /\ move_vd(Cur, vd) = Cur
         /\ move_window_to_vd(Cur, vd) = Cur
  /\ \A k \in VD_START .. (VD_END - 1) :
       BadTarget(k - VD_START) =>
         LET r == Press(k)
         IN ~r.ret /\ r.m.out = <<>> /\ r.m.current_vd = current_vd

C31_Witness ==
  /\ LastPress({VD_9}) /\ ~last.ret /\ out = <<>>
  /\ vd_max = 3 /\ current_vd = 2 /\ target_vd = 9 /\ ShiftHeld(Cur)

\* C32: after any sequence of set_vd_max, move_vd, move_window_to_vd and
\* virtual-desktop key events, 1 <= current_vd <= vd_max.
C32_CurrentVdInRange == 1 <= current_vd /\ current_vd <= vd_max

\* The digit a stored byte stands for (the byte after '9' is what the
\* number-row 0 key is stored as).
StoredDigit(c) == IF c = CHAR_0 + 10 THEN CHAR_0 ELSE c

\* C33: the string compared with the reference PIN at a submit is the
\* buffer up to the position, and that is, digit by digit, what was keyed
\* since capture mode was last entered; bytes of earlier attempts left in
\* the buffer are not part of it.
C33_ComparedStringIsThisSession ==
  CapturingPin(Cur) =>
    /\ \A s \in SubmitKeys : CStr(Press(s).m.pin_buffer) = Typed(Cur)
    /\ Len(Typed(Cur)) = Min(Len(h_typed), MAX_PIN_LENGTH - 1)
    /\ \A i \in 1 .. Len(Typed(Cur)) : StoredDigit(Typed(Cur)[i]) = h_typed[i]

C33_Witness ==
  /\ LastPress(SubmitKeys) /\ last.before = 1 /\ last.index_before > 0
  /\ Len(h_typed) = last.index_before
  /\ pin_buffer[last.index_before] = NUL
  /\ pin_buffer[last.index_before + 1] # NUL

\* C34: while Unlocked the unlock timestamp is the instant of the most
\* recent matching submit, and the auto-lock check does not lock as long as
\* no more than the timeout has passed since that submit, also when an
\* earlier unlock lies further back.
C34_TimeoutFromLatestUnlock ==
  secrets_unlocked =>
    /\ h_unlocks # <<>>
    /\ unlock_timer = h_unlocks[Len(h_unlocks)]
    /\ \A t \in TimePoints :
         (t >= timer /\ t - h_unlocks[Len(h_unlocks)] <= LOCK_TIMEOUT_MS)
           => matrix_scan_user(Cur, t).secrets_unlocked

C34_Witness ==
  /\ last.op = "scan" /\ last.before = 2 /\ secrets_unlocked
  /\ Len(h_unlocks) = 2 /\ h_unlocks[1] < h_unlocks[2]
  /\ timer - h_unlocks[1] > LOCK_TIMEOUT_MS
  /\ timer - h_unlocks[2] <= LOCK_TIMEOUT_MS

\* C35: the auto-lock check while the gate is Locked or in CapturingPin
\* changes nothing, at whatever instant: capture mode stays on and the
\* digits entered stay.
C35_AutoLockIdleWhenNotUnlocked ==
  ~Unlocked(Cur) =>
    \A t \in TimePoints : t >= timer => matrix_scan_user(Cur, t) = Cur

C35_Witness ==
  /\ last.op = "scan" /\ last.before = 1 /\ last.index_before > 0
  /\ CapturingPin(Cur) /\ pin_index = last.index_before /\ timer = MaxTime

\* C36: in every reachable state pin_index is at most MAX_PIN_LENGTH - 1,
\* so the digit write and the terminator write at pin_index are inside the
\* buffer.
C36_IndexInsideBuffer ==
  /\ pin_index <= MAX_PIN_LENGTH - 1
  /\ pin_index \in DOMAIN pin_buffer

C36_Witness ==
  /\ LastPress({KC_ENT}) /\ last.before = 1
  /\ last.index_before = MAX_PIN_LENGTH - 1
  /\ pin_buffer[MAX_PIN_LENGTH - 1] = NUL /\ pin_buffer[MAX_PIN_LENGTH - 2] # NUL

====
